---- MODULE Spec2Model ----
(***************************************************************************)
(* Model of the preprocessing core of rsna_pipeline.py: the constructor of *)
(* RSNAPreprocessor, read_dicom with its handler fallback, the per-record  *)
(* loop of process_and_save, and main()'s two batches (train, then test).  *)
(* The two pure functions _resize_with_padding and the normalisation part  *)
(* of _process_dicom_image are checked under their own specifications      *)
(* (SpecFit, SpecNorm) further down.                                       *)
(***************************************************************************)
EXTENDS Integers, Sequences, FiniteSets, TLC

VARIABLES
    pc,                 \* position in main() / process_and_save / read_dicom
    CFG_output_format,  \* CFG.output_format, the configured format string
    gdcm_installed,     \* what pydicom.have_gdcm() answers in this process
    preprocessor,       \* the RSNAPreprocessor object, or None
    source,             \* which table main() is processing: "train" | "test"
    metadata_df,        \* the table handed to process_and_save
    idx,                \* 1-based position of the row being processed (0: no loop yet)
    processed_count,
    failed_count,
    image_handlers,     \* the process-wide pydicom.config.image_handlers
    dicom,              \* the dataset read_dicom holds, or None
    tried,              \* backends with which this read_dicom call attempted the pixel data
    img,                \* read_dicom's result: an image (its shape) or None
    dirs,               \* directories that exist under the output root
    files,              \* image files that exist under the output root
    fit,                \* SpecFit only: one call of _resize_with_padding
    norm                \* SpecNorm only: one call of _process_dicom_image

vars == <<pc, CFG_output_format, gdcm_installed, preprocessor, source, metadata_df,
          idx, processed_count, failed_count, image_handlers, dicom, tried, img,
          dirs, files, fit, norm>>

\* Python's None, as a value comparable with the records that stand for objects.
None == [none |-> TRUE]

\* ---------------------------------------------------------------- bounds

\* Longest metadata table a batch is run over.
MaxRecords == 2

\* Largest height and width of a source image handed to _resize_with_padding.
MaxDim == 5

\* Largest height and width of a configured target canvas.
MaxTarget == 4

\* Most samples in a pixel array handed to _process_dicom_image.
MaxPixels == 2

\* Largest stored sample value, and largest WindowCenter.
MaxSample == 2

\* Largest WindowWidth.
MaxWidth == 2

\* ----------------------------------------------------------- configuration

\* CFG.debug is True: process_and_save is called with num_samples=100.
DebugSamples == 100

\* CFG.target_size as main() passes it: the class body binds the name twice,
\* (512, 512) under "Preprocessing" and then 1 under "Model"; the second wins.
CFG_target_size == 1

\* The canvas the "Preprocessing" section of CFG asks for.
PreprocessingTargetSize == <<512, 512>>

\* The thumbnail size process_and_save resizes to.
ThumbSize == <<512, 512>>

\* Format strings a caller may configure.
Formats == {"png", "jpg", "jpeg", "bmp"}

\* ------------------------------------------------------------- source tree

Backends == <<"gdcm", "pillow", "none">>

BackendSet == {Backends[i] : i \in 1..Len(Backends)}

\* Rows of train.csv the batches draw from: patient_id, image_id, view, laterality.
TrainRows ==
    { [patient_id |-> 1, image_id |-> 11, view |-> "CC",  laterality |-> "L"],
      [patient_id |-> 2, image_id |-> 12, view |-> "MLO", laterality |-> "L"],
      [patient_id |-> 3, image_id |-> 13, view |-> "CC",  laterality |-> "L"],
      [patient_id |-> 4, image_id |-> 14, view |-> "AT",  laterality |-> "L"],
      [patient_id |-> 5, image_id |-> 15, view |-> "MLO", laterality |-> "R"],
      [patient_id |-> 6, image_id |-> 16, view |-> "CC",  laterality |-> "R"],
      [patient_id |-> 7, image_id |-> 17, view |-> "MLO", laterality |-> "L"],
      [patient_id |-> 8, image_id |-> 18, view |-> "CC",  laterality |-> "R"] }

\* Rows of test.csv.
TestRows ==
    { [patient_id |-> 21, image_id |-> 31, view |-> "CC",  laterality |-> "L"],
      [patient_id |-> 22, image_id |-> 32, view |-> "MLO", laterality |-> "R"] }

Missing == [exists |-> FALSE]

File(readable, compressed, decodable, shape) ==
    [exists |-> TRUE, readable |-> readable, compressed |-> compressed,
     decodable |-> decodable, shape |-> shape]

\* The .dcm files under base_path: <tree>/<patient_id>/<image_id>.dcm.
\*   readable:   dcmread(force=True) returns a dataset rather than raising
\*   compressed: file_meta.TransferSyntaxUID.is_compressed
\*   decodable:  the handlers that can turn the pixel stream into an array
DicomFiles(tree, patient_id, image_id) ==
    IF tree = "train_images" THEN
        CASE image_id = 12 -> File(FALSE, FALSE, {}, <<1, 1>>)
          [] image_id = 13 -> File(TRUE, FALSE, BackendSet, <<3, 2>>)
          [] image_id = 14 -> File(TRUE, FALSE, BackendSet, <<2, 3>>)
          [] image_id = 15 -> File(TRUE, TRUE, BackendSet, <<4, 4>>)
          [] image_id = 16 -> File(TRUE, TRUE, {"pillow", "none"}, <<2, 2>>)
          [] image_id = 17 -> File(TRUE, TRUE, {"none"}, <<3, 3>>)
          [] image_id = 18 -> File(TRUE, FALSE, {"pillow", "none"}, <<2, 4>>)
          [] OTHER -> Missing
    ELSE
        CASE image_id = 31 -> File(TRUE, FALSE, BackendSet, <<3, 2>>)
          [] image_id = 32 -> File(TRUE, TRUE, BackendSet, <<2, 3>>)
          [] OTHER -> Missing

\* All tables of at most n rows over a row set.
Tables(rows, n) == UNION { [1..k -> rows] : k \in 0..n }

\* DataFrame.head(n).
DfHead(df, n) == IF Len(df) <= n THEN df ELSE SubSeq(df, 1, n)

\* ------------------------------------------------------------ output tree

Root == <<>>

\* _create_directory_structure: the root, and <view>/<laterality> for CC, MLO x L, R.
CreateDirectoryStructure ==
    {Root} \cup UNION { { <<view>>, <<view, "L">>, <<view, "R">> } : view \in {"CC", "MLO"} }

\* save_image's suffix: '.png' for png, '.jpg' for everything else.
Suffix(output_format) == IF output_format = "png" THEN ".png" ELSE ".jpg"

\* output_dir / view / laterality / "<patient_id>_<image_id>" (or "..._thumb"), with suffix.
OutputPath(row, thumb, output_format) ==
    [dir |-> <<row.view, row.laterality>>,
     name |-> <<row.patient_id, row.image_id, thumb>>,
     suffix |-> Suffix(output_format)]

\* The file system after a successful cv2.imwrite: an existing file is replaced.
Written(fs, path, shape) ==
    {f \in fs : f.path # path} \cup {[path |-> path, shape |-> shape]}

\* What cv2.imwrite can do: it cannot create a file in a directory that does not
\* exist (it returns False); otherwise it writes, returns False on an I/O failure,
\* or raises cv2.error.
ImwriteOutcomes(path) ==
    IF path.dir \in dirs THEN {"written", "false", "raise"} ELSE {"false"}

\* ------------------------------------------------------------------ main()

Row == metadata_df[idx]

Init ==
    /\ pc = "main"
    /\ CFG_output_format \in Formats
    /\ gdcm_installed \in BOOLEAN
    /\ preprocessor = None
    /\ source = "train"
    /\ metadata_df = <<>>
    /\ idx = 0
    /\ processed_count = 0
    /\ failed_count = 0
    /\ image_handlers = "default"
    /\ dicom = None
    /\ tried = <<>>
    /\ img = None
    /\ dirs = {}
    /\ files = {}
    /\ fit = None
    /\ norm = None

\* main(): CFG.processed_dir.mkdir(parents=True, exist_ok=True).
MainMkdir ==
    /\ pc = "main"
    /\ dirs' = dirs \cup {Root}
    /\ pc' = "load_train"
    /\ UNCHANGED <<CFG_output_format, gdcm_installed, preprocessor, source, metadata_df,
                   idx, processed_count, failed_count, image_handlers, dicom, tried,
                   img, files, fit, norm>>

\* main(): train_df = pd.read_csv(train.csv), head(100) in debug mode.
LoadTrainCsv ==
    /\ pc = "load_train"
    /\ \E df \in Tables(TrainRows, MaxRecords) :
          metadata_df' = DfHead(df, DebugSamples)
    /\ source' = "train"
    /\ pc' = "construct"
    /\ UNCHANGED <<CFG_output_format, gdcm_installed, preprocessor, idx, processed_count,
                   failed_count, image_handlers, dicom, tried, img, dirs, files, fit, norm>>

\* process_test_data(): test_df = pd.read_csv(test.csv), head(100) in debug mode.
LoadTestCsv ==
    /\ pc = "load_test"
    /\ \E df \in Tables(TestRows, MaxRecords) :
          metadata_df' = DfHead(df, DebugSamples)
    /\ source' = "test"
    /\ pc' = "construct"
    /\ UNCHANGED <<CFG_output_format, gdcm_installed, preprocessor, idx, processed_count,
                   failed_count, image_handlers, dicom, tried, img, dirs, files, fit, norm>>

\* The check left out: what C8 would lose if the constructor accepted anything.
AnyOutputFormat(output_format) == TRUE

\* The constructor's check of output_format.
ValidOutputFormat(output_format) == output_format \in {"png", "jpg", "jpeg"}

\* RSNAPreprocessor.__init__: the attributes are set, then an invalid format raises
\* ValueError, which main() catches at its outermost level and returns.
Construct ==
    /\ pc = "construct"
    /\ IF ValidOutputFormat(CFG_output_format)
       THEN /\ preprocessor' = [target_size |-> CFG_target_size,
                                output_format |-> CFG_output_format]
            /\ pc' = "process_and_save"
       ELSE /\ preprocessor' = None
            /\ pc' = "main_failed"
    /\ UNCHANGED <<CFG_output_format, gdcm_installed, source, metadata_df, idx,
                   processed_count, failed_count, image_handlers, dicom, tried, img,
                   dirs, files, fit, norm>>

\* The directories made without exist_ok: mkdir raises FileExistsError on the
\* first one that is already there, and the exception leaves process_and_save.
\* What C11 would lose.
ProcessAndSaveBeginStrictMkdir ==
    /\ pc = "process_and_save"
    /\ IF dirs \cap CreateDirectoryStructure = {}
       THEN /\ metadata_df' = DfHead(metadata_df, DebugSamples)
            /\ dirs' = dirs \cup CreateDirectoryStructure
            /\ processed_count' = 0
            /\ failed_count' = 0
            /\ idx' = 1
            /\ pc' = "loop"
       ELSE /\ pc' = "main_failed"
            /\ UNCHANGED <<metadata_df, dirs, processed_count, failed_count, idx>>
    /\ UNCHANGED <<CFG_output_format, gdcm_installed, preprocessor, source,
                   image_handlers, dicom, tried, img, files, fit, norm>>

\* process_and_save up to its loop: head(num_samples), _create_directory_structure
\* (every mkdir with exist_ok=True), both counters set to 0.
ProcessAndSaveBegin ==
    /\ pc = "process_and_save"
    /\ metadata_df' = DfHead(metadata_df, DebugSamples)
    /\ dirs' = dirs \cup CreateDirectoryStructure
    /\ processed_count' = 0
    /\ failed_count' = 0
    /\ idx' = 1
    /\ pc' = "loop"
    /\ UNCHANGED <<CFG_output_format, gdcm_installed, preprocessor, source,
                   image_handlers, dicom, tried, img, files, fit, norm>>

\* for idx, row in metadata_df.iterrows(): the next row calls read_dicom.
NextRow ==
    /\ pc = "loop"
    /\ idx <= Len(metadata_df)
    /\ dicom' = None
    /\ tried' = <<>>
    /\ img' = None
    /\ pc' = "read_dicom"
    /\ UNCHANGED <<CFG_output_format, gdcm_installed, preprocessor, source, metadata_df,
                   idx, processed_count, failed_count, image_handlers, dirs, files,
                   fit, norm>>

\* return processed_count, failed_count; main() goes on to train_model() and
\* process_test_data() after the training batch, and to inference() after the
\* test batch (neither touches the state modelled here).
ReturnCounts ==
    /\ pc = "loop"
    /\ idx > Len(metadata_df)
    /\ pc' = IF source = "train" THEN "load_test" ELSE "main_done"
    /\ UNCHANGED <<CFG_output_format, gdcm_installed, preprocessor, source, metadata_df,
                   idx, processed_count, failed_count, image_handlers, dicom, tried,
                   img, dirs, files, fit, norm>>

\* ---------------------------------------------------------------- read_dicom

\* process_and_save calls read_dicom(patient_id=..., image_id=...): is_train is
\* never passed and keeps its default.
IsTrainArgument == TRUE

\* images_path = self.train_images_path if is_train else self.test_images_path
ImagesPath(is_train) == IF is_train THEN "train_images" ELSE "test_images"

CurrentFile == DicomFiles(ImagesPath(IsTrainArgument), Row.patient_id, Row.image_id)

\* A missing file raising out of the batch instead of returning None: what C2
\* would lose if the failure were not contained.
FileNotFoundRaises ==
    /\ pc = "read_dicom"
    /\ ~CurrentFile.exists
    /\ pc' = "main_failed"
    /\ UNCHANGED <<CFG_output_format, gdcm_installed, preprocessor, source, metadata_df,
                   idx, processed_count, failed_count, image_handlers, dicom, tried,
                   img, dirs, files, fit, norm>>

\* if not dicom_path.exists(): print, return None.
FileNotFound ==
    /\ pc = "read_dicom"
    /\ ~CurrentFile.exists
    /\ img' = None
    /\ pc' = "have_img"
    /\ UNCHANGED <<CFG_output_format, gdcm_installed, preprocessor, source, metadata_df,
                   idx, processed_count, failed_count, image_handlers, dicom, tried,
                   dirs, files, fit, norm>>

\* Handlers configured only while still at pydicom's default: what C9 would lose
\* if read_dicom did not reset the list on every call.
ConfiguredOnce(current) ==
    IF current = "default" THEN (IF gdcm_installed THEN "gdcm" ELSE "none") ELSE current

\* image_handlers = [None], then [gdcm_handler] if pydicom.have_gdcm().
ConfiguredHandlers(current) == IF gdcm_installed THEN "gdcm" ELSE "none"

ConfigureHandlers ==
    /\ pc = "read_dicom"
    /\ CurrentFile.exists
    /\ image_handlers' = ConfiguredHandlers(image_handlers)
    /\ pc' = "dcmread"
    /\ UNCHANGED <<CFG_output_format, gdcm_installed, preprocessor, source, metadata_df,
                   idx, processed_count, failed_count, dicom, tried, img, dirs, files,
                   fit, norm>>

\* dicom = pydicom.dcmread(path, force=True); an exception is caught by the inner
\* handler, which returns None. A dataset whose transfer syntax is compressed goes
\* on to decompress(), any other straight to _process_dicom_image.
Dcmread ==
    /\ pc = "dcmread"
    /\ IF CurrentFile.readable
       THEN /\ dicom' = [file |-> CurrentFile, decompressed |-> FALSE]
            /\ img' = img
            /\ pc' = IF CurrentFile.compressed THEN "decompress" ELSE "process"
       ELSE /\ dicom' = None
            /\ img' = None
            /\ pc' = "have_img"
    /\ UNCHANGED <<CFG_output_format, gdcm_installed, preprocessor, source, metadata_df,
                   idx, processed_count, failed_count, image_handlers, tried, dirs,
                   files, fit, norm>>

\* dicom.decompress() under the handler in effect; on an exception the handler
\* list becomes [pillow_handler] and the file is read again.
Decompress ==
    /\ pc = "decompress"
    /\ tried' = Append(tried, image_handlers)
    /\ IF image_handlers \in dicom.file.decodable
       THEN /\ dicom' = [dicom EXCEPT !.decompressed = TRUE]
            /\ image_handlers' = image_handlers
            /\ pc' = "process"
       ELSE /\ dicom' = dicom
            /\ image_handlers' = "pillow"
            /\ pc' = "reread"
    /\ UNCHANGED <<CFG_output_format, gdcm_installed, preprocessor, source, metadata_df,
                   idx, processed_count, failed_count, img, dirs, files, fit, norm>>

\* dicom = pydicom.dcmread(path, force=True), the second read of the same file.
Reread ==
    /\ pc = "reread"
    /\ dicom' = [file |-> CurrentFile, decompressed |-> FALSE]
    /\ pc' = "process"
    /\ UNCHANGED <<CFG_output_format, gdcm_installed, preprocessor, source, metadata_df,
                   idx, processed_count, failed_count, image_handlers, tried, img,
                   dirs, files, fit, norm>>

\* img = self._process_dicom_image(dicom); return img. pixel_array of a dataset
\* that was not decompressed decodes under the handler in effect; any exception
\* inside _process_dicom_image makes it return None. The image keeps the shape
\* of the pixel array: read_dicom returns it as it is.
ProcessDicomImage ==
    /\ pc = "process"
    /\ IF dicom.decompressed
       THEN /\ tried' = tried
            /\ img' = [shape |-> dicom.file.shape]
       ELSE /\ tried' = Append(tried, image_handlers)
            /\ img' = IF image_handlers \in dicom.file.decodable
                      THEN [shape |-> dicom.file.shape]
                      ELSE None
    /\ pc' = "have_img"
    /\ UNCHANGED <<CFG_output_format, gdcm_installed, preprocessor, source, metadata_df,
                   idx, processed_count, failed_count, image_handlers, dicom, dirs,
                   files, fit, norm>>

\* ------------------------------------------------- process_and_save, per row

\* else: failed_count += 1
CountFailed ==
    /\ pc = "have_img"
    /\ img = None
    /\ failed_count' = failed_count + 1
    /\ idx' = idx + 1
    /\ pc' = "loop"
    /\ UNCHANGED <<CFG_output_format, gdcm_installed, preprocessor, source, metadata_df,
                   processed_count, image_handlers, dicom, tried, img, dirs, files,
                   fit, norm>>

\* self.save_image(img, output_path): cv2.imwrite's return value is dropped.
SaveMain ==
    /\ pc = "have_img"
    /\ img # None
    /\ LET path == OutputPath(Row, FALSE, preprocessor.output_format)
       IN \E outcome \in ImwriteOutcomes(path) :
             /\ files' = IF outcome = "written" THEN Written(files, path, img.shape)
                         ELSE files
             /\ pc' = IF outcome = "raise" THEN "except" ELSE "thumbnail"
    /\ UNCHANGED <<CFG_output_format, gdcm_installed, preprocessor, source, metadata_df,
                   idx, processed_count, failed_count, image_handlers, dicom, tried,
                   img, dirs, fit, norm>>

\* thumbnail = cv2.resize(img, (512, 512)), which can raise cv2.error.
ResizeThumbnail ==
    /\ pc = "thumbnail"
    /\ \E outcome \in {"ok", "raise"} :
          pc' = IF outcome = "raise" THEN "except" ELSE "save_thumbnail"
    /\ UNCHANGED <<CFG_output_format, gdcm_installed, preprocessor, source, metadata_df,
                   idx, processed_count, failed_count, image_handlers, dicom, tried,
                   img, dirs, files, fit, norm>>

\* self.save_image(thumbnail, thumbnail_path); processed_count += 1
SaveThumbnail ==
    /\ pc = "save_thumbnail"
    /\ LET path == OutputPath(Row, TRUE, preprocessor.output_format)
       IN \E outcome \in ImwriteOutcomes(path) :
             /\ files' = IF outcome = "written" THEN Written(files, path, ThumbSize)
                         ELSE files
             /\ IF outcome = "raise"
                THEN /\ pc' = "except"
                     /\ UNCHANGED <<processed_count, idx>>
                ELSE /\ processed_count' = processed_count + 1
                     /\ idx' = idx + 1
                     /\ pc' = "loop"
    /\ UNCHANGED <<CFG_output_format, gdcm_installed, preprocessor, source, metadata_df,
                   failed_count, image_handlers, dicom, tried, img, dirs, fit, norm>>

\* The handler swallowing the exception without counting it: what C1 would lose.
HandleExceptionUncounted ==
    /\ pc = "except"
    /\ idx' = idx + 1
    /\ pc' = "loop"
    /\ UNCHANGED <<CFG_output_format, gdcm_installed, preprocessor, source, metadata_df,
                   processed_count, failed_count, image_handlers, dicom, tried, img,
                   dirs, files, fit, norm>>

\* except Exception as e: failed_count += 1; print.
HandleException ==
    /\ pc = "except"
    /\ failed_count' = failed_count + 1
    /\ idx' = idx + 1
    /\ pc' = "loop"
    /\ UNCHANGED <<CFG_output_format, gdcm_installed, preprocessor, source, metadata_df,
                   processed_count, image_handlers, dicom, tried, img, dirs, files,
                   fit, norm>>

Next ==
    \/ MainMkdir
    \/ LoadTrainCsv
    \/ LoadTestCsv
    \/ Construct
    \/ ProcessAndSaveBegin
    \/ NextRow
    \/ ReturnCounts
    \/ FileNotFound
    \/ ConfigureHandlers
    \/ Dcmread
    \/ Decompress
    \/ Reread
    \/ ProcessDicomImage
    \/ CountFailed
    \/ SaveMain
    \/ ResizeThumbnail
    \/ SaveThumbnail
    \/ HandleException

Spec == Init /\ [][Next]_vars

\* ------------------------------------------------------- claims on the batch

InLoop == pc \in {"loop", "read_dicom", "dcmread", "decompress", "reread", "process",
                  "have_img", "thumbnail", "save_thumbnail", "except"}

Returned == pc \in {"load_test", "main_done"}

\* Rows whose iteration is over.
Iterated == IF idx = 0 THEN 0 ELSE idx - 1

CountsInv ==
    /\ processed_count + failed_count = Iterated
    /\ Returned => processed_count + failed_count = Len(metadata_df)

CountsStep ==
    /\ (InLoop /\ idx' = idx) =>
          /\ processed_count' = processed_count
          /\ failed_count' = failed_count
    /\ (InLoop /\ idx' # idx) =>
          /\ idx' = idx + 1
          /\ \/ /\ processed_count' = processed_count + 1
                /\ failed_count' = failed_count
             \/ /\ processed_count' = processed_count
                /\ failed_count' = failed_count + 1
    /\ ~InLoop =>
          \/ UNCHANGED <<processed_count, failed_count>>
          \/ pc = "process_and_save" /\ processed_count' = 0 /\ failed_count' = 0

\* C1: at every point of a batch processed_count + failed_count is the number of
\* rows iterated so far (the length of the table once the batch has returned), and
\* finishing a row raises exactly one of the two counters, by exactly one.
C1_CountsAddUp == []CountsInv /\ [][CountsStep]_vars

\* A training batch has returned with both kinds of row in it.
C1_Witness ==
    /\ pc = "load_test"
    /\ Len(metadata_df) = 2
    /\ processed_count = 1
    /\ failed_count = 1

MissingRowStep ==
    /\ (pc = "read_dicom" /\ ~CurrentFile.exists) =>
          /\ pc' = "have_img"
          /\ img' = None
          /\ files' = files
    /\ (pc = "have_img" /\ img = None) =>
          /\ failed_count' = failed_count + 1
          /\ processed_count' = processed_count
          /\ files' = files
          /\ idx' = idx + 1
          /\ pc' = "loop"
    /\ (pc = "loop" /\ idx <= Len(metadata_df)) => pc' = "read_dicom"
    /\ InLoop => pc' # "main_failed"

\* C2: a row whose file is missing makes read_dicom return None without touching
\* the output tree, is counted as one failure, and hands control back to the loop,
\* which goes on to every remaining row; nothing raised inside the loop reaches
\* main(), so the batch returns its counts.
C2_MissingFileIsolated ==
    /\ [][MissingRowStep]_vars
    /\ [](pc = "main_failed" => preprocessor = None)
    /\ [](Returned => idx = Len(metadata_df) + 1)

\* The first row's file was missing and the second row was processed after it.
C2_Witness ==
    /\ pc = "load_test"
    /\ Len(metadata_df) = 2
    /\ ~DicomFiles("train_images", metadata_df[1].patient_id, metadata_df[1].image_id).exists
    /\ failed_count = 1
    /\ processed_count = 1
    /\ \E f \in files : f.path.name[2] = metadata_df[2].image_id

\* The full image of a thumbnail's path and the other way round.
Counterpart(path) == [path EXCEPT !.name[3] = ~path.name[3]]

\* C3 (as claimed): once a batch has returned, every full image in the output tree
\* has its _thumb file and every _thumb file its full image.
C3_BothOrNeither ==
    Returned => \A f \in files : \E g \in files : g.path = Counterpart(f.path)

\* C4 (as claimed): processed_count is raised only for a row whose full image and
\* thumbnail are both in the output tree.
C4_ProcessedMeansWritten ==
    [][processed_count' = processed_count + 1 =>
          \A thumb \in BOOLEAN :
             \E f \in files' : f.path = OutputPath(Row, thumb, preprocessor.output_format)]_vars

\* C5 (as claimed): every full image in the output tree is a fitted image, of
\* exactly the target height and width.
C5_FullImageIsFitted ==
    \A f \in files : ~f.path.name[3] => f.shape = PreprocessingTargetSize

\* C8: with an output_format other than png, jpg or jpeg no preprocessor object
\* ever exists, no row is read, no handler is configured, and nothing beyond the
\* root that main() itself makes is created in the output tree.
C8_InvalidFormatRejected ==
    /\ preprocessor # None => preprocessor.output_format \in {"png", "jpg", "jpeg"}
    /\ CFG_output_format \notin {"png", "jpg", "jpeg"} =>
          /\ preprocessor = None
          /\ pc \in {"main", "load_train", "construct", "main_failed"}
          /\ idx = 0
          /\ image_handlers = "default"
          /\ dirs \subseteq {Root}
          /\ files = {}

\* The constructor has raised on 'bmp'.
C8_Witness ==
    /\ pc = "main_failed"
    /\ CFG_output_format = "bmp"
    /\ preprocessor = None

\* What read_dicom returns for a file, from the file and the installation alone.
DecodeOf(file) ==
    LET first == IF gdcm_installed THEN "gdcm" ELSE "none"
    IN  IF ~file.exists THEN None
        ELSE IF ~file.readable THEN None
        ELSE IF first \in file.decodable THEN [shape |-> file.shape]
        ELSE IF file.compressed /\ "pillow" \in file.decodable THEN [shape |-> file.shape]
        ELSE None

\* C9: whenever a row's file is read the handler list is the one this call set
\* (gdcm if installed, else none, for the first read; pillow for the second),
\* whatever the rows before it did, and the image read_dicom returns is a function
\* of the file alone, not of the row's position.
C9_NoHandlerLeak ==
    /\ pc = "dcmread" => image_handlers = (IF gdcm_installed THEN "gdcm" ELSE "none")
    /\ pc = "reread" => image_handlers = "pillow"
    /\ pc = "have_img" => img = DecodeOf(CurrentFile)

\* A file is read right after a row that left the handler list at pillow.
C9_Witness ==
    /\ pc = "dcmread"
    /\ idx = 2
    /\ metadata_df[1].image_id = 16
    /\ gdcm_installed

\* C10 (as claimed): read_dicom gives up on a file that exists only after every
\* backend of the ordered list has been attempted.
C10_AllBackendsBeforeFailure ==
    (pc = "have_img" /\ img = None /\ CurrentFile.exists) => tried = Backends

DirsReady == InLoop => dirs = CreateDirectoryStructure

BeginStep ==
    pc = "process_and_save" =>
        /\ pc' = "loop"
        /\ dirs' = CreateDirectoryStructure
        /\ processed_count' = 0
        /\ failed_count' = 0

RowOutcomeStep ==
    (InLoop /\ idx' = idx + 1) =>
        LET decoded == DecodeOf(CurrentFile) # None
        IN  /\ processed_count' = processed_count + 1 => (decoded /\ pc = "save_thumbnail")
            /\ failed_count' = failed_count + 1 =>
                  \/ ~decoded /\ pc = "have_img"
                  \/ decoded /\ pc = "except"

\* C11: in every batch, the first on a fresh output root or a later one on a tree
\* a previous batch left, _create_directory_structure goes through without raising
\* and leaves exactly the same directory set (the root, CC and MLO, each with L and
\* R), which is in place while any row is read; and which counter a row raises is
\* fixed by what read_dicom makes of its file and by whether cv2 raised, not by
\* what was on disk before the batch, so a second batch over the same table under
\* the same conditions counts the same.
C11_DirectoriesReadyIdempotent ==
    /\ []DirsReady
    /\ [][BeginStep /\ RowOutcomeStep]_vars

\* The first row of the test batch is being read, on the directories the training
\* batch had already made.
C11_Witness ==
    /\ pc = "read_dicom"
    /\ source = "test"
    /\ idx = 1
    /\ dirs = CreateDirectoryStructure

\* C12 (as claimed): once a decoded row's full image has been handed to save_image,
\* the row's <view>/<laterality> directory exists.
C12_WriteCreatesDirectory ==
    pc \in {"thumbnail", "save_thumbnail"} => <<Row.view, Row.laterality>> \in dirs

\* C13 (as claimed): the tree read_dicom resolves a row's file under is the one of
\* the table being processed: train_images for train.csv, test_images for test.csv.
C13_TreeMatchesTable ==
    pc \in {"read_dicom", "dcmread", "decompress", "reread", "process"} =>
        ImagesPath(IsTrainArgument) =
            (IF source = "train" THEN "train_images" ELSE "test_images")

\* ------------------------------------------------------ _resize_with_padding

\* The values every variable of the batch has while a pure function is checked
\* on its own.
Idle ==
    /\ pc = "idle"
    /\ CFG_output_format = "png"
    /\ gdcm_installed = TRUE
    /\ preprocessor = None
    /\ source = "train"
    /\ metadata_df = <<>>
    /\ idx = 0
    /\ processed_count = 0
    /\ failed_count = 0
    /\ image_handlers = "default"
    /\ dicom = None
    /\ tried = <<>>
    /\ img = None
    /\ dirs = {}
    /\ files = {}

batchVars == <<pc, CFG_output_format, gdcm_installed, preprocessor, source, metadata_df,
               idx, processed_count, failed_count, image_handlers, dicom, tried, img,
               dirs, files>>

\* Shapes (rows, columns) of non-empty source images.
Shapes == (1..MaxDim) \X (1..MaxDim)

\* Target sizes (H, W) a preprocessor can be configured with.
TargetSizes == (1..MaxTarget) \X (1..MaxTarget)

\* One call of _resize_with_padding(img) on a preprocessor with the given
\* target_size; img is None or an image of some shape.
InitFit ==
    /\ Idle
    /\ norm = None
    /\ \E shape \in Shapes, target \in TargetSizes, given \in BOOLEAN :
          fit = [pc |-> "call", target_size |-> target,
                 img |-> IF given THEN [shape |-> shape] ELSE None]

\* The size the image is resized to. aspect = rows / cols is a float and int()
\* truncates; for the heights, widths and targets within the bounds here the
\* float quotient truncates to the same integer as the exact one.
\*   aspect > 1:  new_height = H, new_width = int(new_height / aspect)
\*   otherwise:   new_width = W, new_height = int(new_width * aspect)
NewSize(shape, target) ==
    IF shape[1] > shape[2]
    THEN [height |-> target[1], width |-> (target[1] * shape[2]) \div shape[1]]
    ELSE [height |-> (target[2] * shape[1]) \div shape[2], width |-> target[2]]

\* if img is None: return None
FitNone ==
    /\ fit.pc = "call"
    /\ fit.img = None
    /\ fit' = [fit EXCEPT !.pc = "done", !.out = None]
    /\ UNCHANGED <<batchVars, norm>>

\* img = cv2.resize(img, (new_width, new_height)): cv2.error unless both are
\* positive; the result has new_height rows and new_width columns.
FitResize ==
    /\ fit.pc = "call"
    /\ fit.img # None
    /\ LET new == NewSize(fit.img.shape, fit.target_size)
       IN  IF new.width >= 1 /\ new.height >= 1
           THEN fit' = [pc |-> "resized", target_size |-> fit.target_size, img |-> fit.img,
                        new |-> new, resized |-> <<new.height, new.width>>]
           ELSE fit' = [pc |-> "done", target_size |-> fit.target_size, img |-> fit.img,
                        new |-> new, out |-> [raised |-> "cv2.resize"]]
    /\ UNCHANGED <<batchVars, norm>>

\* The four paddings, from the resized image's shape.
Padding(resized, target) ==
    LET top == (target[1] - resized[1]) \div 2
        left == (target[2] - resized[2]) \div 2
    IN  [top |-> top, bottom |-> target[1] - resized[1] - top,
         left |-> left, right |-> target[2] - resized[2] - left]

\* return cv2.copyMakeBorder(img, top, bottom, left, right, BORDER_CONSTANT, 0):
\* cv2.error on a negative padding, else the image grown by the paddings.
FitPad ==
    /\ fit.pc = "resized"
    /\ LET pad == Padding(fit.resized, fit.target_size)
       IN  IF pad.top >= 0 /\ pad.bottom >= 0 /\ pad.left >= 0 /\ pad.right >= 0
           THEN fit' = [pc |-> "done", target_size |-> fit.target_size, img |-> fit.img,
                        new |-> fit.new,
                        out |-> [shape |-> <<pad.top + fit.resized[1] + pad.bottom,
                                             pad.left + fit.resized[2] + pad.right>>]]
           ELSE fit' = [pc |-> "done", target_size |-> fit.target_size, img |-> fit.img,
                        new |-> fit.new, out |-> [raised |-> "cv2.copyMakeBorder"]]
    /\ UNCHANGED <<batchVars, norm>>

NextFit ==
    \/ FitNone
    \/ FitResize
    \/ FitPad

SpecFit == InitFit /\ [][NextFit]_vars

\* C6 (as claimed): for every non-empty source image and every target (H, W),
\* _resize_with_padding computes new_height in 1..H and new_width in 1..W and
\* returns an image of exactly H rows and W columns.
C6_ExactTargetSize ==
    (fit.pc = "done" /\ fit.img # None) =>
        /\ fit.new.height >= 1
        /\ fit.new.width >= 1
        /\ fit.new.height <= fit.target_size[1]
        /\ fit.new.width <= fit.target_size[2]
        /\ fit.out = [shape |-> fit.target_size]

\* --------------------------------- _process_dicom_image, up to the uint8 cast

\* Stored sample values of a pixel array.
Samples == 0..MaxSample

PixelArrays == UNION { [1..n -> Samples] : n \in 1..MaxPixels }

\* WindowCenter and WindowWidth when the dataset has both, else None.
Windows == {None} \cup [center : 0..MaxSample, width : 0..MaxWidth]

Min(a, b) == IF a <= b THEN a ELSE b

Max(a, b) == IF a >= b THEN a ELSE b

SeqMin(xs) == CHOOSE m \in {xs[i] : i \in DOMAIN xs} : \A i \in DOMAIN xs : m <= xs[i]

SeqMax(xs) == CHOOSE m \in {xs[i] : i \in DOMAIN xs} : \A i \in DOMAIN xs : m >= xs[i]

\* One call of _process_dicom_image on a dataset with the given pixel array.
InitNorm ==
    /\ Idle
    /\ fit = None
    /\ \E pixels \in PixelArrays, window \in Windows :
          norm = [pc |-> "call", pixel_array |-> pixels, window |-> window]

\* np.clip(x, lower, upper) = minimum(maximum(x, lower), upper).
Clip(x, lower, upper) == Min(Max(x, lower), upper)

\* img = pixel_array.astype(float32); with WindowCenter and WindowWidth present,
\* img = np.clip(img, center - width / 2, center + width / 2). img2 holds the
\* values doubled, so that the window bounds are integers too.
NormWindow ==
    /\ norm.pc = "call"
    /\ norm' = [pc |-> "windowed", pixel_array |-> norm.pixel_array, window |-> norm.window,
                img2 |-> [i \in DOMAIN norm.pixel_array |->
                            IF norm.window = None
                            THEN 2 * norm.pixel_array[i]
                            ELSE Clip(2 * norm.pixel_array[i],
                                      2 * norm.window.center - norm.window.width,
                                      2 * norm.window.center + norm.window.width)]]
    /\ UNCHANGED <<batchVars, fit>>

\* if img.max() != img.min(): img = (img - img.min()) / (img.max() - img.min()).
\* The image becomes a sequence of fractions num/den: normalised ones over
\* max - min, untouched ones (doubled values) over 2.
NormMinMax ==
    /\ norm.pc = "windowed"
    /\ LET lo == SeqMin(norm.img2)
           hi == SeqMax(norm.img2)
       IN  norm' = [pc |-> "normalized", pixel_array |-> norm.pixel_array,
                    window |-> norm.window, skipped |-> (hi = lo),
                    img |-> [i \in DOMAIN norm.img2 |->
                               IF hi # lo
                               THEN [num |-> norm.img2[i] - lo, den |-> hi - lo]
                               ELSE [num |-> norm.img2[i], den |-> 2]]]
    /\ UNCHANGED <<batchVars, fit>>

\* What astype(np.uint8) can give for a float that truncates to x: x itself when
\* it fits; outside 0..255 the C conversion is undefined, and builds either wrap
\* modulo 256 or saturate.
Uint8(x) ==
    IF x >= 0 /\ x <= 255 THEN {x}
    ELSE {x % 256, IF x < 0 THEN 0 ELSE 255}

\* img = (img * 255).astype(np.uint8): the product truncated towards zero.
NormQuantize ==
    /\ norm.pc = "normalized"
    /\ \E out \in [DOMAIN norm.img -> 0..255] :
          /\ \A i \in DOMAIN norm.img :
                out[i] \in Uint8((255 * norm.img[i].num) \div norm.img[i].den)
          /\ norm' = [pc |-> "quantized", pixel_array |-> norm.pixel_array,
                      window |-> norm.window, skipped |-> norm.skipped, img |-> out]
    /\ UNCHANGED <<batchVars, fit>>

NextNorm ==
    \/ NormWindow
    \/ NormMinMax
    \/ NormQuantize

SpecNorm == InitNorm /\ [][NextNorm]_vars

\* C7 (as claimed): for a constant-valued pixel array the min-max step is skipped
\* and the 8-bit image that comes out of the uint8 cast is all zeros.
C7_ConstantGivesZero ==
    (/\ norm.pc = "quantized"
     /\ \A i \in DOMAIN norm.pixel_array : norm.pixel_array[i] = norm.pixel_array[1]) =>
        /\ norm.skipped
        /\ \A i \in DOMAIN norm.img : norm.img[i] = 0

====
